---------------------------- MODULE Spec2Model ----------------------------
(***************************************************************************)
(* A model of the Stacks Project dependency-graph scripts:                 *)
(*   scripts/dependency_graph.py      (build_graph, write_dot, the JSON    *)
(*                                     dump, generate_dependency_tex)      *)
(*   scripts/interleaved_dep_graph.py (StacksParser, LeanParser,           *)
(*                                     DependencyGraphBuilder, Exporter)   *)
(*   scripts/compute_stats.py         (compute_stats)                      *)
(*                                                                         *)
(* SpecGraph: the two main() pipelines from a parsed block universe to the *)
(*            exported graph and composite document.                       *)
(* SpecTex:   either program reading one document and writing its blocks   *)
(*            back (parse_file and _extract_environment; StacksParser and  *)
(*            StacksEnv.tex_block).                                        *)
(* SpecLean:  compute_stats over a document, a registry and a .lean file,  *)
(*            and LeanParser over a .lean file.                            *)
(* SpecTags:  load_tag_map and StacksParser._load_tag_map over one         *)
(*            registry file.                                               *)
(* SpecBuild: build_graph over a Makefile and the documents it lists.      *)
(* SpecAttach: DependencyGraphBuilder._add_node over a registry and a      *)
(*            .lean file.                                                  *)
(***************************************************************************)
EXTENDS Integers, Sequences, FiniteSets, TLC

VARIABLES
    \* ---- the run: which script, its parsed corpus and its arguments ----
    prog,          \* "dependency_graph" or "interleaved_dep_graph"
    results,       \* label -> [type]: build_graph's results / StacksParser.envs
    edges,         \* citation pairs <<citing, cited>>: build_graph's edges / env.refs
    request,       \* the root label asked for (--tex LABEL)
    include_defs,  \* DependencyGraphBuilder.include_defs (not --no-defs)
    depth,         \* build's depth argument: None or <<n>>
    lean_snippets, \* labels for which the secondary corpus has a snippet
    \* ---- the traversal ----
    pc,            \* position in main()
    stack,         \* the recursion stack of visit / dfs: frames [node, todo, d]
    visited,       \* the visited set of visit / dfs
    order,         \* visit's order list; for dfs the sequence of _add_node calls
    G,             \* DependencyGraphBuilder.G: [nodes, edges, lean]
    \* ---- the outputs ----
    dot,           \* the DOT export: None or <<[nodes, edges]>>
    json,          \* the JSON export: None or <<[nodes, edges]>>
    tex,           \* the composite document: None or <<sequence of items>>
    interleave,    \* the interleave flag the export was asked with: None or <<b>>
    err,           \* the exception that ended the run, or "none"
    \* ---- parsing one document of the primary corpus ----
    lines,         \* the lines of the document sample.tex
    tex_pc,        \* position of the parsing run
    parsed,        \* [results, edges, sites] of parse_file, [envs] of StacksParser
    emitted,       \* per registered label the text the composite document gets
    \* ---- scanning the secondary corpus ----
    lean_lines,    \* the lines of one .lean file of the secondary corpus
    tags,          \* the registry file tags/tags: its CODE,LABEL lines in order
    tag_map,       \* load_tag_map's mapping, as <<tag, label>> pairs in dict order
    snippets,      \* scan_mathlib's results (by label) / LeanParser.snippets (by tag)
    matches,       \* every <<key, place>> offered to snippets, in scan order
    stats,         \* compute_stats's result, or None
    lean_pc,       \* position of the scanning run
    \* ---- loading the registry ----
    registry,      \* the file tags/tags: [exists, lines]
    loaded,        \* the mapping the loader returned, as <<tag, label>> pairs
    reg_pc,        \* which loader is to run, or "loaded"
    \* ---- build_graph over the manifest ----
    makefile,      \* the Makefile: None when absent, else <<stems of LIJST>>
    present,       \* the stems whose .tex file exists
    todo,          \* the stems build_graph has still to parse
    build_pc,      \* position of build_graph
    build_err      \* the exception that ended build_graph, or "none"

graphVars == <<prog, results, edges, request, include_defs, depth, lean_snippets,
               pc, stack, visited, order, G, dot, json, tex, interleave, err>>

texVars == <<lines, tex_pc, parsed, emitted>>

leanVars == <<lean_lines, tags, tag_map, snippets, matches, stats, lean_pc>>

regVars == <<registry, loaded, reg_pc>>

buildVars == <<makefile, present, todo, build_pc, build_err>>

vars == <<graphVars, texVars, leanVars, regVars, buildVars>>

\* Python's None, and Some(x) as the one-element sequence <<x>>.
None == <<>>

Min(a, b) == IF a <= b THEN a ELSE b

Max(a, b) == IF a >= b THEN a ELSE b

-----------------------------------------------------------------------------
(* The block universe of the graph specifications. *)

Labels == {"root", "a", "b", "c"}

\* A label that is cited but that no block registers.
Dangling == "zzz"

\* Kinds a block of the universe may have (two of ENVIRONMENTS).
Kinds == {"lemma", "definition"}

\* The citations a universe may contain: the chain root -> a -> b -> c, a
\* second path to b, cycles through and past the root, a self-citation and a
\* citation of an unregistered label.
CandidateEdges ==
    { <<"root", "a">>, <<"a", "b">>, <<"b", "c">>, <<"root", "b">>,
      <<"a", "root">>, <<"b", "a">>, <<"c", "root">>, <<"root", "root">>,
      <<"a", Dangling>> }

\* The blocks that may be of kind definition; every other block is a lemma.
MayBeDefinition == {"root", "a"}

\* The sets of labels that may have a snippet.
SnippetChoices == { {}, {"root", "a"} }

\* The largest explicit --depth explored.
MaxDepth == 2

Depths == {None} \cup { <<n>> : n \in 0..MaxDepth }


\* No document is being parsed.
TexIdle ==
    /\ lines = <<>>
    /\ tex_pc = "idle"
    /\ parsed = None
    /\ emitted = None

\* No scan of the secondary corpus is under way.
LeanIdle ==
    /\ lean_lines = <<>>
    /\ tags = <<>>
    /\ tag_map = <<>>
    /\ snippets = <<>>
    /\ matches = <<>>
    /\ stats = None
    /\ lean_pc = "idle"

\* No registry is being loaded.
RegIdle ==
    /\ registry = [exists |-> FALSE, lines |-> <<>>]
    /\ loaded = <<>>
    /\ reg_pc = "idle"

\* build_graph is not under way.
BuildIdle ==
    /\ makefile = None
    /\ present = {}
    /\ todo = <<>>
    /\ build_pc = "idle"
    /\ build_err = "none"

\* No graph run is under way.
GraphIdle ==
    /\ prog = "none"
    /\ results = <<>>
    /\ edges = {}
    /\ request = Dangling
    /\ include_defs = TRUE
    /\ depth = None
    /\ lean_snippets = {}
    /\ pc = "idle"
    /\ stack = <<>>
    /\ visited = {}
    /\ order = <<>>
    /\ G = [nodes |-> {}, edges |-> {}, tex |-> {}, lean |-> {}]
    /\ dot = None
    /\ json = None
    /\ tex = None
    /\ interleave = None
    /\ err = "none"

-----------------------------------------------------------------------------
(* Helpers shared by the two traversals. *)

\* The labels some block registers: `results` / `self.stacks.envs`.
Known == DOMAIN results

\* adj.get(node, []) in generate_dependency_tex; env.refs in build.  The
\* order of the citations (the order of edges; the iteration order of the
\* set refs) is left open: the loops below take them in any order.
Adj(node) == { e[2] : e \in { x \in edges : x[1] = node } }

Top == stack[Len(stack)]

Pop == SubSeq(stack, 1, Len(stack) - 1)

\* A call frame of visit(node) / dfs(node, d) with its loop still to run.
Frame(n, d) == [node |-> n, todo |-> Adj(n), d |-> d]

\* The caller's frame once its loop has taken dep.
Taken(dep) == [stack EXCEPT ![Len(stack)].todo = @ \ {dep}]

Reverse(s) == [i \in 1..Len(s) |-> s[Len(s) + 1 - i]]

RECURSIVE Flatten(_)
Flatten(ss) == IF ss = <<>> THEN <<>> ELSE Head(ss) \o Flatten(Tail(ss))

\* The items of s that are in the set S, in order.
RECURSIVE Only(_, _)
Only(s, S) ==
    IF s = <<>> THEN <<>>
    ELSE (IF Head(s) \in S THEN <<Head(s)>> ELSE <<>>) \o Only(Tail(s), S)

Range(s) == { s[i] : i \in 1..Len(s) }

NoDuplicates(s) == \A i, j \in 1..Len(s) : s[i] = s[j] => i = j

\* The position of x in the duplicate-free sequence s.
Pos(s, x) == CHOOSE i \in 1..Len(s) : s[i] = x

\* An item of a composite document: what is emitted, for which label, and
\* whether a snippet text is in it.
Item(k, n, s) == [k |-> k, n |-> n, s |-> s]

-----------------------------------------------------------------------------
(* scripts/interleaved_dep_graph.py: DependencyGraphBuilder *)

EmptyGraph == [nodes |-> {}, edges |-> {}, tex |-> {}, lean |-> {}]

\* A _should_stop that knows the depth limit only.
ShouldStopAtDepthOnly(label, d) == depth # None /\ d >= depth[1]

\* _should_stop(label, d)
ShouldStop(label, d) ==
    IF depth # None /\ d >= depth[1] THEN TRUE
    ELSE IF ~include_defs THEN FALSE
    ELSE results[label].type = "definition"

\* _add_node(env): the node with its "type" and "tex" data, and "lean" when
\* the label's tag has a snippet.
AddNode(g, label) ==
    [g EXCEPT !.nodes = @ \cup {label},
              !.tex = @ \cup {label},
              !.lean = IF label \in lean_snippets THEN @ \cup {label} ELSE @]

\* _add_edge(src, tgt): networkx adds the endpoints it does not hold yet.
AddEdge(g, src, tgt) ==
    [g EXCEPT !.nodes = @ \cup {src, tgt}, !.edges = @ \cup {<<src, tgt>>}]

\* dfs(label, d), called with the graph g and the callers' frames st.
Dfs(label, d, g, st) ==
    IF label \in visited
    THEN /\ G' = g
         /\ stack' = st
         /\ UNCHANGED <<visited, order>>
    ELSE /\ visited' = visited \cup {label}
         /\ G' = AddNode(g, label)
         /\ order' = Append(order, label)
         /\ stack' = IF ShouldStop(label, d) THEN st
                     ELSE Append(st, Frame(label, d))

\* build(root_label, depth) up to its first call of dfs.
Build ==
    /\ pc = "build"
    /\ IF request \notin Known
       THEN /\ pc' = "error"
            /\ err' = "KeyError"
            /\ UNCHANGED <<G, stack, visited, order>>
       ELSE /\ Dfs(request, 0, G, stack)
            /\ pc' = IF stack' = <<>> THEN "to_dot" ELSE "dfs"
            /\ UNCHANGED err
    /\ UNCHANGED <<texVars, leanVars, regVars, buildVars, prog, results, edges, request, include_defs, depth,
                   lean_snippets, dot, json, tex, interleave>>

\* One iteration of `for dep in env.refs` in the innermost dfs.
DfsLoop ==
    /\ pc = "dfs"
    /\ stack # <<>>
    /\ Top.todo # {}
    /\ \E dep \in Top.todo :
          IF dep \notin Known
          THEN /\ stack' = Taken(dep)
               /\ UNCHANGED <<G, visited, order>>
          ELSE Dfs(dep, Top.d + 1, AddEdge(G, Top.node, dep), Taken(dep))
    /\ UNCHANGED <<texVars, leanVars, regVars, buildVars, prog, results, edges, request, include_defs, depth,
                   lean_snippets, pc, dot, json, tex, interleave, err>>

\* The innermost dfs has run its loop and returns.
DfsReturn ==
    /\ pc = "dfs"
    /\ stack # <<>>
    /\ Top.todo = {}
    /\ stack' = Pop
    /\ pc' = IF Pop = <<>> THEN "to_dot" ELSE "dfs"
    /\ UNCHANGED <<texVars, leanVars, regVars, buildVars, prog, results, edges, request, include_defs, depth,
                   lean_snippets, visited, order, G, dot, json, tex,
                   interleave, err>>

-----------------------------------------------------------------------------
(* scripts/interleaved_dep_graph.py: Exporter *)

\* to_dot / to_json: the nodes and edges of G as they are.
GraphData(g) == [nodes |-> g.nodes, edges |-> g.edges]

ToDot ==
    /\ pc = "to_dot"
    /\ dot' = <<GraphData(G)>>
    /\ pc' = "to_json"
    /\ UNCHANGED <<texVars, leanVars, regVars, buildVars, prog, results, edges, request, include_defs, depth,
                   lean_snippets, stack, visited, order, G, json, tex,
                   interleave, err>>

ToJson ==
    /\ pc = "to_json"
    /\ json' = <<GraphData(G)>>
    /\ pc' = "to_tex"
    /\ UNCHANGED <<texVars, leanVars, regVars, buildVars, prog, results, edges, request, include_defs, depth,
                   lean_snippets, stack, visited, order, G, dot, tex,
                   interleave, err>>

\* nx.topological_sort(G): an order of all nodes with every edge's source
\* before its target.  Which of these orders networkx yields is left open;
\* there is none when G has a cycle (NetworkXUnfeasible).
TopologicalOrders(g) ==
    { s \in [1..Cardinality(g.nodes) -> g.nodes] :
        /\ Range(s) = g.nodes
        /\ \A e \in g.edges : e[1] # e[2] /\ Pos(s, e[1]) < Pos(s, e[2]) }

\* _interleave_blocks: per node a minipage pair, the text then the snippet
\* (or the "% no Lean snippet" placeholder).
InterleaveBlocks(g, topo) ==
    Flatten([i \in 1..Len(topo) |->
        << Item("minipage_tex", topo[i], FALSE),
           Item("minipage_lean", topo[i], topo[i] \in g.lean) >>])

\* _appendix_blocks: every text, then the snippets that exist.
AppendixBlocks(g, topo) ==
    [i \in 1..Len(topo) |-> Item("tex", topo[i], FALSE)]
    \o [i \in 1..Len(Only(topo, g.lean)) |->
          Item("lstlisting", Only(topo, g.lean)[i], TRUE)]

\* to_tex(outfile, interleave): the preamble and the TikZ picture (one opaque
\* item here), then the blocks of the chosen layout.
ToTex ==
    /\ pc = "to_tex"
    /\ \E il \in BOOLEAN :
         /\ interleave' = <<il>>
         /\ IF TopologicalOrders(G) = {}
            THEN /\ pc' = "error"
                 /\ err' = "NetworkXUnfeasible"
                 /\ UNCHANGED tex
            ELSE /\ \E topo \in TopologicalOrders(G) :
                      tex' = << <<Item("tikz", request, FALSE)>>
                                \o (IF il THEN InterleaveBlocks(G, topo)
                                          ELSE AppendixBlocks(G, topo)) >>
                 /\ pc' = "done"
                 /\ UNCHANGED err
    /\ UNCHANGED <<texVars, leanVars, regVars, buildVars, prog, results, edges, request, include_defs, depth,
                   lean_snippets, stack, visited, order, G, dot, json>>

-----------------------------------------------------------------------------
(* scripts/dependency_graph.py: main *)

\* write_dot: a node per entry of results, and the edges whose target is one.
WriteDotData == [nodes |-> Known, edges |-> { e \in edges : e[2] \in Known }]

WriteDot ==
    /\ pc = "write_dot"
    /\ dot' = <<WriteDotData>>
    /\ pc' = "dump_json"
    /\ UNCHANGED <<texVars, leanVars, regVars, buildVars, prog, results, edges, request, include_defs, depth,
                   lean_snippets, stack, visited, order, G, json, tex,
                   interleave, err>>

\* json.dump({'nodes': results, 'edges': edges}, ...)
DumpJsonData == [nodes |-> Known, edges |-> edges]

DumpJson ==
    /\ pc = "dump_json"
    /\ json' = <<DumpJsonData>>
    /\ pc' = "generate_dependency_tex"
    /\ UNCHANGED <<texVars, leanVars, regVars, buildVars, prog, results, edges, request, include_defs, depth,
                   lean_snippets, stack, visited, order, G, dot, tex,
                   interleave, err>>

\* The keyword arguments generate_dependency_tex takes beyond lean_snippets:
\* none, so a call that passes interleave= raises TypeError.
AcceptsInterleave == FALSE

\* A visit that returns early for unregistered labels only.
VisitSkipsUnknownOnly(node) == node \notin Known

\* `if node in visited or node not in results: return` in visit.
VisitSkips(node) == node \in visited \/ node \notin Known

\* generate_dependency_tex(label, ...) up to its call visit(label).  The
\* caller passes interleave= (as tests/test_interleave_example.py does) or
\* not (as main does).
GenerateDependencyTex ==
    /\ pc = "generate_dependency_tex"
    /\ \E kw \in {None, <<TRUE>>, <<FALSE>>} :
         /\ interleave' = kw
         /\ IF kw # None /\ ~AcceptsInterleave
            THEN /\ pc' = "error"
                 /\ err' = "TypeError"
                 /\ UNCHANGED <<stack, visited>>
            ELSE /\ IF VisitSkips(request)
                    THEN /\ pc' = "write_tex"
                         /\ UNCHANGED <<stack, visited>>
                    ELSE /\ visited' = visited \cup {request}
                         /\ stack' = <<Frame(request, 0)>>
                         /\ pc' = "visit"
                 /\ UNCHANGED err
    /\ UNCHANGED <<texVars, leanVars, regVars, buildVars, prog, results, edges, request, include_defs, depth,
                   lean_snippets, order, G, dot, json, tex>>

\* One iteration of `for dep in adj.get(node, [])` in the innermost visit.
VisitLoop ==
    /\ pc = "visit"
    /\ stack # <<>>
    /\ Top.todo # {}
    /\ \E dep \in Top.todo :
          IF VisitSkips(dep)
          THEN /\ stack' = Taken(dep)
               /\ UNCHANGED visited
          ELSE /\ visited' = visited \cup {dep}
               /\ stack' = Append(Taken(dep), Frame(dep, Top.d + 1))
    /\ UNCHANGED <<texVars, leanVars, regVars, buildVars, prog, results, edges, request, include_defs, depth,
                   lean_snippets, pc, order, G, dot, json, tex, interleave, err>>

\* The innermost visit has run its loop: order.append(node), return.
VisitReturn ==
    /\ pc = "visit"
    /\ stack # <<>>
    /\ Top.todo = {}
    /\ order' = Append(order, Top.node)
    /\ stack' = Pop
    /\ pc' = IF Pop = <<>> THEN "write_tex" ELSE "visit"
    /\ UNCHANGED <<texVars, leanVars, regVars, buildVars, prog, results, edges, request, include_defs, depth,
                   lean_snippets, visited, G, dot, json, tex, interleave, err>>

\* An emission in the order of visit's list.
EmitOrderAsVisited(ord) == ord

\* `for lbl in reversed(order)`
EmitOrder(ord) == Reverse(ord)

\* The body of the document: per label the lines of its environment, then
\* its snippet in a verbatim block when it has one.
DependencyTexBlocks(ord) ==
    Flatten([i \in 1..Len(ord) |->
        <<Item("env", ord[i], FALSE)>>
        \o (IF ord[i] \in lean_snippets
            THEN <<Item("verbatim", ord[i], TRUE)>> ELSE <<>>)])

\* The rest of generate_dependency_tex: the file is written.
WriteTex ==
    /\ pc = "write_tex"
    /\ tex' = <<DependencyTexBlocks(EmitOrder(order))>>
    /\ pc' = "done"
    /\ UNCHANGED <<texVars, leanVars, regVars, buildVars, prog, results, edges, request, include_defs, depth,
                   lean_snippets, stack, visited, order, G, dot, json,
                   interleave, err>>

-----------------------------------------------------------------------------
(* The graph specification: either script, run on a parsed corpus. *)

Universe(defs) ==
    [l \in Labels |-> [type |-> IF l \in defs THEN "definition" ELSE "lemma"]]

InitGraph ==
    /\ LeanIdle
    /\ RegIdle
    /\ BuildIdle
    /\ prog \in {"dependency_graph", "interleaved_dep_graph"}
    /\ \E defs \in SUBSET MayBeDefinition : results = Universe(defs)
    /\ edges \in SUBSET CandidateEdges
    /\ request \in {"root", Dangling}
    /\ lean_snippets \in SnippetChoices
    /\ IF prog = "interleaved_dep_graph"
       THEN include_defs \in BOOLEAN /\ depth \in Depths
       ELSE include_defs = TRUE /\ depth = None
    /\ pc = IF prog = "interleaved_dep_graph" THEN "build" ELSE "write_dot"
    /\ stack = <<>>
    /\ visited = {}
    /\ order = <<>>
    /\ G = EmptyGraph
    /\ dot = None
    /\ json = None
    /\ tex = None
    /\ interleave = None
    /\ err = "none"
    /\ TexIdle

NextGraph ==
    \/ Build
    \/ DfsLoop
    \/ DfsReturn
    \/ ToDot
    \/ ToJson
    \/ ToTex
    \/ WriteDot
    \/ DumpJson
    \/ GenerateDependencyTex
    \/ VisitLoop
    \/ VisitReturn
    \/ WriteTex

SpecGraph == InitGraph /\ [][NextGraph]_vars

-----------------------------------------------------------------------------
(* The primary corpus: one document, sample.tex, as a sequence of lines.   *)
(* A line is its leading white space (ind) and its tokens in order; a      *)
(* label is the sequence of its parts between hyphens, so that             *)
(* <<"sample", "lemma", "a">> is the text sample-lemma-a.                  *)

\* The document stem: `name` in parse_file.
Stem == "sample"

\* ENVIRONMENTS of dependency_graph.py.
DgENVIRONMENTS ==
    { "definition", "lemma", "proposition", "theorem", "remark", "remarks",
      "example", "exercise", "situation", "equation" }

\* ENVIRONMENTS of interleaved_dep_graph.py.
ENVIRONMENTS == DgENVIRONMENTS \cup {"corollary"}

Tok(t, v) == [t |-> t, v |-> v]

TexLine(ind, toks) == [ind |-> ind, toks |-> toks]

\* The lines a document is made of.
TexLines ==
    { TexLine(FALSE, <<Tok("begin", "lemma")>>),          \* \begin{lemma}
      TexLine(TRUE,  <<Tok("begin", "lemma")>>),          \*   \begin{lemma}
      TexLine(FALSE, <<Tok("begin", "definition")>>),     \* \begin{definition}
      TexLine(FALSE, <<Tok("label", <<"lemma", "a">>)>>), \* \label{lemma-a}
      TexLine(FALSE, <<Tok("label", <<>>)>>),             \* \label{}
      TexLine(FALSE, <<Tok("text", "See"),                \* See \ref{sample-lemma-a}
                       Tok("ref", <<"sample", "lemma", "a">>)>>),
      TexLine(FALSE, <<Tok("text", "See"),                \* See \ref{lemma-a}
                       Tok("ref", <<"lemma", "a">>)>>),
      TexLine(FALSE, <<Tok("end", "lemma")>>),            \* \end{lemma}
      TexLine(FALSE, <<Tok("end", "definition")>>),       \* \end{definition}
      TexLine(FALSE, <<Tok("text", "A")>>) }              \* A

\* The longest document explored.
MaxLines == 4

Documents == UNION { [1..n -> TexLines] : n \in 0..MaxLines }

\* The first token of a line, white space stripped.
First(line) == IF line.toks = <<>> THEN Tok("text", "") ELSE line.toks[1]

\* re.match(r'\\begin{(...)}', line.strip()): the kind, or None.
MatchBegin(line, kinds) ==
    IF First(line).t = "begin" /\ First(line).v \in kinds
    THEN <<First(line).v>> ELSE None

\* re.match(r'\\end{' + env_type + '}', line.strip()) and
\* line.strip().startswith("\\end{" + env_type + "}")
MatchEnd(line, env_type) == First(line).t = "end" /\ First(line).v = env_type

\* The \ref{...} targets of a line, in order: re.findall(r'\\ref{([^}]+)}').
RECURSIVE RefsOf(_)
RefsOf(toks) ==
    IF toks = <<>> THEN <<>>
    ELSE (IF Head(toks).t = "ref" /\ Head(toks).v # <<>>
          THEN <<Head(toks).v>> ELSE <<>>) \o RefsOf(Tail(toks))

\* A mapping with key k set to v: d[k] = v.
Put(d, k, v) == [x \in DOMAIN d \cup {k} |-> IF x = k THEN v ELSE d[x]]

-----------------------------------------------------------------------------
(* scripts/dependency_graph.py: parse_file and _extract_environment *)

\* full_label: raw_label if raw_label.startswith(prefix) else prefix + raw_label
Qualify(raw) ==
    IF Len(raw) >= 2 /\ raw[1] = Stem THEN raw ELSE <<Stem>> \o raw

\* target = ref if '-' in ref else prefix + ref
RefTarget(ref) == IF Len(ref) >= 2 THEN ref ELSE <<Stem>> \o ref

\* check.startswith(PREFIXES), check being the target after its first hyphen.
Tracked(target) ==
    LET check == IF Len(target) >= 2 THEN Tail(target) ELSE target
    IN  Len(check) >= 2 /\ check[1] \in DgENVIRONMENTS

\* No line is taken for a label declaration.
MatchLabelNever(line) == None

\* re.match(r'\\label{([^}]+)}', line): the raw label, or None.
MatchLabel(line) ==
    IF First(line).t = "label" /\ First(line).v # <<>>
    THEN <<First(line).v>> ELSE None

\* `if check.startswith(PREFIXES) and full_label`
RecordsEdge(full_label, target) == Tracked(target) /\ full_label # None

\* The \ref targets of a line for which an edge is appended, in order.
Cited(full_label, refs) ==
    LET targets == [i \in 1..Len(refs) |-> RefTarget(refs[i])]
    IN  Only(targets, {t \in Range(targets) : RecordsEdge(full_label, t)})

\* edges.append((full_label, target)) for each of them.
EdgesOf(full_label, refs) ==
    [i \in 1..Len(Cited(full_label, refs)) |->
        << full_label[1], Cited(full_label, refs)[i] >>]

\* The state of parse_file before any line: nothing open, the accumulators
\* as passed in.  begin is the line at which the open block began; it is
\* kept with each entry of results (where) and of edges (sites) to tell
\* which block of the document the entry came from.
ParseFileStart ==
    [env_type |-> None, full_label |-> None, begin |-> 0,
     results |-> <<>>, edges |-> <<>>, sites |-> <<>>]

\* One turn of `for line in f` on line i.
ParseFileLine(st, ls, i) ==
    IF st.env_type = None
    THEN IF MatchBegin(ls[i], DgENVIRONMENTS) # None
         THEN [st EXCEPT !.env_type = MatchBegin(ls[i], DgENVIRONMENTS),
                         !.full_label = None,
                         !.begin = i]
         ELSE st
    ELSE IF st.full_label = None /\ MatchLabel(ls[i]) # None
         THEN LET raw == MatchLabel(ls[i])[1]
              IN  [st EXCEPT !.full_label = <<Qualify(raw)>>,
                             !.results = Put(@, Qualify(raw),
                                 [type |-> st.env_type[1], file |-> Stem,
                                  label |-> raw, where |-> st.begin])]
         ELSE LET new == EdgesOf(st.full_label, RefsOf(ls[i].toks))
                  cited == [st EXCEPT !.edges = @ \o new,
                                      !.sites = @ \o [k \in 1..Len(new) |-> st.begin]]
              IN  IF MatchEnd(ls[i], st.env_type[1])
                  THEN [cited EXCEPT !.env_type = None, !.full_label = None]
                  ELSE cited

\* parse_file(path, name, results, edges) from line i on.
RECURSIVE ParseFileFrom(_, _, _)
ParseFileFrom(st, ls, i) ==
    IF i > Len(ls) THEN st ELSE ParseFileFrom(ParseFileLine(st, ls, i), ls, i + 1)

ParseFile(ls) == ParseFileFrom(ParseFileStart, ls, 1)

\* re.match on the line as read, white space and all.
RawMatchBegin(line) ==
    IF line.ind THEN None ELSE MatchBegin(line, DgENVIRONMENTS)

RawMatchEnd(line, env_type) == ~line.ind /\ MatchEnd(line, env_type)

\* re.search(r'\\label{' + re.escape(target) + '}', line)
SearchLabel(line, target) ==
    \E i \in 1..Len(line.toks) :
        line.toks[i].t = "label" /\ line.toks[i].v = target

ExtractStart ==
    [lines |-> <<>>, collecting |-> FALSE, env_type |-> None,
     stopped |-> FALSE, err |-> "none"]

\* One turn of `for line in f` in _extract_environment.
ExtractLine(st, line, target) ==
    IF st.stopped \/ st.err # "none" THEN st
    ELSE IF ~st.collecting
    THEN IF st.env_type = None
         THEN IF RawMatchBegin(line) # None
              THEN [st EXCEPT !.env_type = RawMatchBegin(line), !.lines = <<line>>]
              ELSE st
         ELSE LET found == [st EXCEPT !.lines = Append(@, line),
                                      !.collecting = SearchLabel(line, target)]
              IN  IF RawMatchEnd(line, st.env_type[1])
                  THEN [found EXCEPT !.env_type = None, !.lines = <<>>]
                  ELSE found
    ELSE IF st.env_type = None
         THEN [st EXCEPT !.lines = Append(@, line), !.err = "TypeError"]
         ELSE [st EXCEPT !.lines = Append(@, line),
                         !.stopped = RawMatchEnd(line, st.env_type[1])]

RECURSIVE ExtractFrom(_, _, _, _)
ExtractFrom(st, ls, i, target) ==
    IF i > Len(ls) THEN st
    ELSE ExtractFrom(ExtractLine(st, ls[i], target), ls, i + 1, target)

\* _extract_environment(path, label, results): the lines returned, and the
\* exception if one is raised.
ExtractEnvironment(ls, label, res) ==
    IF label \notin DOMAIN res THEN [lines |-> <<>>, err |-> "none"]
    ELSE LET st == ExtractFrom(ExtractStart, ls, 1, res[label].label)
         IN  [lines |-> st.lines, err |-> st.err]

-----------------------------------------------------------------------------
(* scripts/interleaved_dep_graph.py: StacksParser and StacksEnv.tex_block *)

\* LABEL_RE.search(line): the first \label{...} of the line whose text has
\* the shape [a-z]+-[0-9A-Za-z-]+, or None.
RECURSIVE SearchShaped(_, _)
SearchShaped(toks, t) ==
    IF toks = <<>> THEN None
    ELSE IF Head(toks).t = t /\ Len(Head(toks).v) >= 2 THEN <<Head(toks).v>>
    ELSE SearchShaped(Tail(toks), t)

\* REF_RE.findall over the body: the set of the shaped \ref targets.
BodyRefs(body) ==
    { r \in UNION { Range(RefsOf(body[i].toks)) : i \in 1..Len(body) } :
        Len(r) >= 2 }

\* The block is kept whether or not a label was seen.
KeepsUnlabelled(label) == TRUE

\* `if not label: continue` negated: the block is kept.
Keeps(label) == label # None

\* self.envs[label] = StacksEnv(env_type, label, path, body, refs), unless
\* the block is unlabelled.
Register(st) ==
    IF Keeps(st.label)
    THEN Put(st.envs, IF st.label = None THEN None ELSE st.label[1],
             [env_type |-> st.env_type[1],
              label |-> IF st.label = None THEN None ELSE st.label[1],
              body |-> st.body, refs |-> BodyRefs(st.body),
              where |-> st.begin])
    ELSE st.envs

ParseTexStart ==
    [env_type |-> None, label |-> None, body |-> <<>>, begin |-> 0,
     envs |-> <<>>]

\* One turn of the loops of _parse_tex_file on line i: the outer one while
\* no block is open, the inner one while one is.
ParseTexLine(st, ls, i) ==
    IF st.env_type = None
    THEN IF MatchBegin(ls[i], ENVIRONMENTS) # None
         THEN [st EXCEPT !.env_type = MatchBegin(ls[i], ENVIRONMENTS),
                         !.label = None, !.body = <<>>, !.begin = i]
         ELSE st
    ELSE IF MatchEnd(ls[i], st.env_type[1])
         THEN [st EXCEPT !.envs = Register(st), !.env_type = None]
         ELSE [st EXCEPT !.label = IF SearchShaped(ls[i].toks, "label") # None
                                   THEN SearchShaped(ls[i].toks, "label") ELSE @,
                         !.body = Append(@, ls[i])]

\* _parse_tex_file(path) from line i on; a block open at the end of the
\* file is registered like a closed one.
RECURSIVE ParseTexFrom(_, _, _)
ParseTexFrom(st, ls, i) ==
    IF i > Len(ls)
    THEN IF st.env_type = None THEN st.envs ELSE Register(st)
    ELSE ParseTexFrom(ParseTexLine(st, ls, i), ls, i + 1)

ParseTexFile(ls) == ParseTexFrom(ParseTexStart, ls, 1)

\* StacksEnv.tex_block, as lines.
TexBlock(env) ==
    << TexLine(FALSE, <<Tok("begin", env.env_type), Tok("label", env.label)>>) >>
    \o env.body
    \o << TexLine(FALSE, <<Tok("end", env.env_type)>>) >>

-----------------------------------------------------------------------------
(* Reading one document and writing its blocks back, by either program. *)

\* build_graph: parse_file on the document, from empty accumulators.
BuildGraph ==
    /\ tex_pc = "build_graph"
    /\ parsed' = [parsed EXCEPT !.results = ParseFile(lines).results,
                                !.edges = ParseFile(lines).edges,
                                !.sites = ParseFile(lines).sites]
    /\ tex_pc' = "write"
    /\ UNCHANGED <<graphVars, leanVars, regVars, buildVars, lines, emitted>>

\* generate_dependency_tex: _extract_environment for each label written.
WriteEnvironments ==
    /\ tex_pc = "write"
    /\ emitted' = [emitted EXCEPT !.environment =
                      [l \in DOMAIN parsed.results |->
                          ExtractEnvironment(lines, l, parsed.results)]]
    /\ tex_pc' = "done"
    /\ UNCHANGED <<graphVars, leanVars, regVars, buildVars, lines, parsed>>

\* StacksParser.parse: _parse_tex_file on the document.
Parse ==
    /\ tex_pc = "parse"
    /\ parsed' = [parsed EXCEPT !.envs = ParseTexFile(lines)]
    /\ tex_pc' = "export"
    /\ UNCHANGED <<graphVars, leanVars, regVars, buildVars, lines, emitted>>

\* Exporter: tex_block of each block written.
TexBlocks ==
    /\ tex_pc = "export"
    /\ emitted' = [emitted EXCEPT !.tex_block =
                      [l \in DOMAIN parsed.envs |-> TexBlock(parsed.envs[l])]]
    /\ tex_pc' = "done"
    /\ UNCHANGED <<graphVars, leanVars, regVars, buildVars, lines, parsed>>

InitTex ==
    /\ GraphIdle
    /\ LeanIdle
    /\ RegIdle
    /\ BuildIdle
    /\ lines \in Documents
    /\ tex_pc \in {"build_graph", "parse"}
    /\ parsed = [results |-> <<>>, edges |-> <<>>, sites |-> <<>>, envs |-> <<>>]
    /\ emitted = [environment |-> <<>>, tex_block |-> <<>>]

NextTex == BuildGraph \/ WriteEnvironments \/ Parse \/ TexBlocks

SpecTex == InitTex /\ [][NextTex]_vars

-----------------------------------------------------------------------------
(* The secondary corpus: one .lean file as a sequence of lines, and the     *)
(* registry tags/tags.  A line is what the scanners' patterns see of it:    *)
(* the tag of a @[stacks TAG] attribute, the tag of a "Stacks Tag TAG"      *)
(* phrase, whether it opens a doc-string, the name a declaration header     *)
(* declares, whether it is blank.  All lines begin in column 0; the tags    *)
(* T1, T2 stand for four-character upper-case codes.                        *)

LeanLine(attr, doc, opens, head, blank) ==
    [attr |-> attr, doc |-> doc, opens |-> opens, head |-> head, blank |-> blank]

LeanLines ==
    { LeanLine(<<"T1">>, None, FALSE, None, FALSE),      \* @[stacks T1]
      LeanLine(<<"T2">>, None, FALSE, None, FALSE),      \* @[stacks T2]
      LeanLine(None, <<"T1">>, TRUE, None, FALSE),       \* /-- Stacks Tag T1 -/
      LeanLine(None, None, FALSE, <<"foo">>, FALSE),     \* lemma foo : True := by
      LeanLine(None, None, FALSE, <<"bar">>, FALSE),     \* def bar := 1
      LeanLine(None, None, FALSE, None, TRUE) }          \* (blank)

\* The longest .lean file explored.
MaxLeanLines == 5

LeanFiles == UNION { [1..n -> LeanLines] : n \in 0..MaxLeanLines }

\* The documents compute_stats is run on: one lemma, and two lemmas.
LemmaBlock(raw) ==
    << TexLine(FALSE, <<Tok("begin", "lemma")>>),
       TexLine(FALSE, <<Tok("label", raw)>>),
       TexLine(FALSE, <<Tok("end", "lemma")>>) >>

StatsDocuments ==
    { LemmaBlock(<<"lemma", "a">>),
      LemmaBlock(<<"lemma", "a">>) \o LemmaBlock(<<"lemma", "b">>) }

\* The registries compute_stats is run on.
TagFiles ==
    { << <<"T1", <<"lemma", "a">> >> >>,                   \* T1,lemma-a
      << <<"T1", <<"sample", "lemma", "a">> >>,            \* T1,sample-lemma-a
         <<"T2", <<"sample", "lemma", "b">> >> >>,         \* T2,sample-lemma-b
      << <<"T1", <<"sample", "lemma", "a">> >>,            \* T1,sample-lemma-a
         <<"T2", <<"sample", "lemma", "a">> >> >> }        \* T2,sample-lemma-a

\* The position of key k in a sequence of <<key, value>> pairs, or 0.
KeyPos(pairs, k) ==
    IF \E i \in 1..Len(pairs) : pairs[i][1] = k
    THEN CHOOSE i \in 1..Len(pairs) : pairs[i][1] = k /\ \A j \in 1..(i - 1) : pairs[j][1] # k
    ELSE 0

\* load_tag_map: tag_map[tag] = parts[1] for each line in turn; a dict keeps
\* a key at the place it was first inserted.
RECURSIVE LoadTagMapFrom(_, _, _)
LoadTagMapFrom(tm, file, i) ==
    IF i > Len(file) THEN tm
    ELSE LET at == KeyPos(tm, file[i][1])
         IN  LoadTagMapFrom(IF at = 0 THEN Append(tm, file[i])
                            ELSE [tm EXCEPT ![at] = file[i]],
                            file, i + 1)

LoadTagMap(file) == LoadTagMapFrom(<<>>, file, 1)

\* tag_map.get(tag): Some(label) or None.
TagMapGet(tm, tag) ==
    IF KeyPos(tm, tag) = 0 THEN None ELSE <<tm[KeyPos(tm, tag)][2]>>

-----------------------------------------------------------------------------
(* scripts/dependency_graph.py: scan_mathlib, and compute_stats *)

\* tag_url_re.search(line) or attr_tag_re.search(line) or doc_tag_re.search(line):
\* the tag matched, or None.  No line of LeanLines holds a tag URL.
ScanMatch(line) == IF line.attr # None THEN line.attr ELSE line.doc

\* The declaration header nearest before (or at) line i, else the first one
\* after it, else None: the two while loops on j.
HeaderFor(ls, i) ==
    LET before == { j \in 1..i : ls[j].head # None }
        after  == { j \in i..Len(ls) : ls[j].head # None }
    IN  IF before # {} THEN <<CHOOSE j \in before : \A k \in before : k <= j>>
        ELSE IF after # {} THEN <<CHOOSE j \in after : \A k \in after : j <= k>>
        ELSE None

\* results.setdefault(label, snippet)
SetDefault(d, k, v) == IF k \in DOMAIN d THEN d ELSE Put(d, k, v)

\* One turn of `for i, line in enumerate(lines)`.  A snippet is the lines
\* lines[start : min(len(lines), i + 3)]; `at` records the line matched.
ScanLine(st, ls, i, tm) ==
    LET tag == ScanMatch(ls[i])
        label == IF tag = None THEN None ELSE TagMapGet(tm, tag[1])
        start == HeaderFor(ls, i)
    IN  IF tag = None \/ label = None \/ start = None THEN st
        ELSE [kept |-> SetDefault(st.kept, label[1],
                           [lines |-> SubSeq(ls, start[1], Min(Len(ls), i + 2)),
                            start |-> start[1], at |-> i]),
              seen |-> Append(st.seen, <<label[1], i>>)]

RECURSIVE ScanFrom(_, _, _, _)
ScanFrom(st, ls, i, tm) ==
    IF i > Len(ls) THEN st ELSE ScanFrom(ScanLine(st, ls, i, tm), ls, i + 1, tm)

\* scan_mathlib(path, tag_map) on the one file.
ScanMathlib(ls, tm) == ScanFrom([kept |-> <<>>, seen |-> <<>>], ls, 1, tm)

\* Every block counts as having a snippet.
HasSnippetAlways(label, kept) == TRUE

\* `label in lean_snippets`
HasSnippet(label, kept) == label \in DOMAIN kept

\* compute_stats(path, lean_path), lean_path given.
ComputeStats ==
    /\ lean_pc = "compute_stats"
    /\ LET built == ParseFile(lines)
           tm == LoadTagMap(tags)
           scan == ScanMathlib(lean_lines, tm)
       IN  /\ parsed' = [parsed EXCEPT !.results = built.results,
                                       !.edges = built.edges,
                                       !.sites = built.sites]
           /\ tag_map' = tm
           /\ snippets' = scan.kept
           /\ matches' = scan.seen
           /\ stats' = << [num_nodes |-> Cardinality(DOMAIN built.results),
                           num_edges |-> Len(built.edges),
                           num_lean_snippets |-> Cardinality(DOMAIN scan.kept),
                           num_nodes_with_lean_snippet |->
                               Cardinality({ l \in DOMAIN built.results :
                                               HasSnippet(l, scan.kept) })] >>
    /\ lean_pc' = "stats_done"
    /\ UNCHANGED <<graphVars, regVars, buildVars, lines, tex_pc, emitted, lean_lines, tags>>

-----------------------------------------------------------------------------
(* scripts/interleaved_dep_graph.py: LeanParser *)

\* The line at which the capture begun at header line i stops: the first
\* blank line after it, or one past the end of the file.
CaptureEnd(ls, i) ==
    LET blanks == { j \in (i + 1)..Len(ls) : ls[j].blank }
    IN  IF blanks = {} THEN Len(ls) + 1
        ELSE CHOOSE j \in blanks : \A k \in blanks : j <= k

\* `for tag in pending_tags: self.snippets[tag] = LeanSnippet(...)`
Attach(snips, pending, start, ls) ==
    [t \in DOMAIN snips \cup Range(pending) |->
        IF t \in Range(pending)
        THEN [tag |-> t, start_line |-> start,
              lines |-> SubSeq(ls, start, CaptureEnd(ls, start) - 1)]
        ELSE snips[t]]

\* _parse_lean_file(path) from line i on.
RECURSIVE ParseLeanFrom(_, _, _)
ParseLeanFrom(st, ls, i) ==
    IF i > Len(ls) THEN st
    ELSE IF ls[i].attr # None
    THEN ParseLeanFrom([st EXCEPT !.pending = Append(@, ls[i].attr[1])], ls, i + 1)
    ELSE IF ls[i].doc # None /\ ls[Max(i - 1, 1)].opens
    THEN ParseLeanFrom([st EXCEPT !.pending = Append(@, ls[i].doc[1])], ls, i + 1)
    ELSE IF ls[i].head # None /\ st.pending # <<>>
    THEN ParseLeanFrom(
            [pending |-> <<>>,
             kept |-> Attach(st.kept, st.pending, i, ls),
             seen |-> st.seen \o [k \in 1..Len(st.pending) |-> <<st.pending[k], i>>]],
            ls, CaptureEnd(ls, i))
    ELSE ParseLeanFrom(st, ls, i + 1)

ParseLeanFile(ls) ==
    ParseLeanFrom([pending |-> <<>>, kept |-> <<>>, seen |-> <<>>], ls, 1)

\* LeanParser.parse on the one file.
LeanParse ==
    /\ lean_pc = "lean_parse"
    /\ LET scan == ParseLeanFile(lean_lines)
       IN  snippets' = scan.kept /\ matches' = scan.seen
    /\ lean_pc' = "parse_done"
    /\ UNCHANGED <<graphVars, texVars, regVars, buildVars, lean_lines, tags, tag_map, stats>>

InitLean ==
    /\ GraphIdle
    /\ RegIdle
    /\ BuildIdle
    /\ lean_lines \in LeanFiles
    /\ lean_pc \in {"compute_stats", "lean_parse"}
    /\ IF lean_pc = "compute_stats"
       THEN lines \in StatsDocuments /\ tags \in TagFiles
       ELSE lines = <<>> /\ tags = <<>>
    /\ tex_pc = "idle"
    /\ parsed = [results |-> <<>>, edges |-> <<>>, sites |-> <<>>, envs |-> <<>>]
    /\ emitted = None
    /\ tag_map = <<>>
    /\ snippets = <<>>
    /\ matches = <<>>
    /\ stats = None

NextLean == ComputeStats \/ LeanParse

SpecLean == InitLean /\ [][NextLean]_vars

-----------------------------------------------------------------------------
(* The registry file tags/tags, line by line.  A line is blank, or a        *)
(* comment (# first), or its comma-separated fields: the first field (code) *)
(* as a string and the fields after it (rest) as label texts.               *)

RegLine(blank, comment, code, rest) ==
    [blank |-> blank, comment |-> comment, code |-> code, rest |-> rest]

\* The codes met: t1 is T1 in lower case, T1x has five characters.
\* str.upper() on them:
Upper(code) == IF code = "t1" THEN "T1" ELSE code

\* [0-9A-Za-z]{4}: the code is four alphanumerics.
FourAlnum(code) == code \in {"T1", "t1", "T2"}

RegLines ==
    { RegLine(TRUE, FALSE, "", <<>>),                            \* (blank)
      RegLine(FALSE, TRUE, "T2", << <<"lemma", "b">> >>),        \* # T2,lemma-b
      RegLine(FALSE, FALSE, "T1", << <<"lemma", "a">> >>),       \* T1,lemma-a
      RegLine(FALSE, FALSE, "t1", << <<"lemma", "b">> >>),       \* t1,lemma-b
      RegLine(FALSE, FALSE, "T2", << <<"lemma", "a">> >>),       \* T2,lemma-a
      RegLine(FALSE, FALSE, "T1x", << <<"lemma", "a">> >>),      \* T1x,lemma-a
      RegLine(FALSE, FALSE, "T1", << <<>> >>),                   \* T1,
      RegLine(FALSE, FALSE, "T2", <<>>),                         \* T2
      RegLine(FALSE, FALSE, "T2", << <<"lemma", "b">>, <<"x">> >>) } \* T2,lemma-b,x

\* The longest registry explored.
MaxTagLines == 3

Registries ==
    { [exists |-> FALSE, lines |-> <<>>] } \cup
    { [exists |-> TRUE, lines |-> ls] :
        ls \in UNION { [1..n -> RegLines] : n \in 0..MaxTagLines } }

\* load_tag_map: the line is kept when `len(parts) == 2`.
TwoParts(line) == ~line.blank /\ ~line.comment /\ Len(line.rest) = 1

\* StacksParser._load_tag_map: the line is kept when TAG_LINE_RE matches it.
TagLineMatch(line) ==
    /\ ~line.blank /\ ~line.comment
    /\ FourAlnum(line.code)
    /\ Len(line.rest) = 1 /\ line.rest[1] # <<>>

\* The <<tag, label>> assignments the lines selected by dg give, in order.
RECURSIVE Assignments(_, _)
Assignments(ls, dg) ==
    IF ls = <<>> THEN <<>>
    ELSE (IF (dg /\ TwoParts(Head(ls))) \/ (~dg /\ TagLineMatch(Head(ls)))
          THEN << <<Upper(Head(ls).code), Head(ls).rest[1]>> >>
          ELSE <<>>) \o Assignments(Tail(ls), dg)

\* load_tag_map(path)
LoadTags ==
    /\ reg_pc = "load_tag_map"
    /\ loaded' = IF registry.exists
                 THEN LoadTagMap(Assignments(registry.lines, TRUE)) ELSE <<>>
    /\ reg_pc' = "loaded"
    /\ UNCHANGED <<graphVars, texVars, leanVars, buildVars, registry>>

\* StacksParser._load_tag_map()
StacksLoadTags ==
    /\ reg_pc = "_load_tag_map"
    /\ loaded' = IF registry.exists
                 THEN LoadTagMap(Assignments(registry.lines, FALSE)) ELSE <<>>
    /\ reg_pc' = "stacks_loaded"
    /\ UNCHANGED <<graphVars, texVars, leanVars, buildVars, registry>>

InitTags ==
    /\ GraphIdle
    /\ TexIdle
    /\ LeanIdle
    /\ BuildIdle
    /\ registry \in Registries
    /\ reg_pc \in {"load_tag_map", "_load_tag_map"}
    /\ loaded = <<>>

NextTags == LoadTags \/ StacksLoadTags

SpecTags == InitTags /\ [][NextTags]_vars

-----------------------------------------------------------------------------
(* scripts/dependency_graph.py: build_graph over the manifest.  The         *)
(* Makefile is its LIJST value; sample.tex, when it exists, holds `lines`;  *)
(* ghost.tex never exists.                                                  *)

Stems == {"sample", "ghost"}

\* The longest manifest explored.
MaxStems == 2

Makefiles ==
    {None} \cup { <<m>> : m \in UNION { [1..n -> Stems] : n \in 0..MaxStems } }

BuildDocuments == { d \in Documents : Len(d) <= 2 } \cup StatsDocuments

\* results = {} and edges = [] of build_graph.
EmptyAccumulators ==
    [results |-> <<>>, edges |-> <<>>, sites |-> <<>>, envs |-> <<>>]

\* list_text_files(path): open() raises when there is no Makefile.
ListTextFiles ==
    /\ build_pc = "list_text_files"
    /\ IF makefile = None
       THEN /\ build_err' = "FileNotFoundError"
            /\ build_pc' = "error"
            /\ UNCHANGED <<todo, parsed>>
       ELSE /\ todo' = makefile[1]
            /\ parsed' = EmptyAccumulators
            /\ build_pc' = "parse_file"
            /\ UNCHANGED build_err
    /\ UNCHANGED <<graphVars, leanVars, regVars, makefile, present,
                   lines, tex_pc, emitted>>

\* parse_file(path, name, results, edges) for the next stem of the manifest:
\* it returns at once when the file does not exist.
ParseNext ==
    /\ build_pc = "parse_file"
    /\ todo # <<>>
    /\ parsed' =
          IF Head(todo) \notin present THEN parsed
          ELSE LET st == ParseFileFrom(
                            [ParseFileStart EXCEPT !.results = parsed.results,
                                                   !.edges = parsed.edges,
                                                   !.sites = parsed.sites],
                            lines, 1)
               IN  [parsed EXCEPT !.results = st.results,
                                  !.edges = st.edges,
                                  !.sites = st.sites]
    /\ todo' = Tail(todo)
    /\ UNCHANGED <<graphVars, leanVars, regVars, makefile, present,
                   build_pc, build_err, lines, tex_pc, emitted>>

\* `return results, edges`
BuildReturn ==
    /\ build_pc = "parse_file"
    /\ todo = <<>>
    /\ build_pc' = "done"
    /\ UNCHANGED <<graphVars, leanVars, regVars, texVars, makefile, present,
                   todo, build_err>>

InitBuild ==
    /\ GraphIdle
    /\ LeanIdle
    /\ RegIdle
    /\ makefile \in Makefiles
    /\ present \in {{}, {"sample"}}
    /\ lines \in BuildDocuments
    /\ tex_pc = "idle"
    /\ parsed = EmptyAccumulators
    /\ emitted = None
    /\ todo = <<>>
    /\ build_pc = "list_text_files"
    /\ build_err = "none"

NextBuild == ListTextFiles \/ ParseNext \/ BuildReturn

SpecBuild == InitBuild /\ [][NextBuild]_vars

-----------------------------------------------------------------------------
(* scripts/interleaved_dep_graph.py: the snippet _add_node attaches.  The   *)
(* registry maps tags to the labels the documents declare; lean_snippets,   *)
(* which AddNode reads, is the set of labels _add_node finds a snippet for. *)

\* The labels of the registered blocks.
AttachLabels == { <<"lemma", "a">>, <<"lemma", "b">> }

\* The registries the builder is run on.
AttachTagFiles ==
    { << <<"T1", <<"lemma", "a">> >> >>,                   \* T1,lemma-a
      << <<"T1", <<"lemma", "a">> >>,                      \* T1,lemma-a
         <<"T2", <<"lemma", "a">> >> >>,                   \* T2,lemma-a
      << <<"T2", <<"lemma", "a">> >>,                      \* T2,lemma-a
         <<"T1", <<"lemma", "a">> >> >>,                   \* T1,lemma-a
      << <<"T1", <<"lemma", "a">> >>,                      \* T1,lemma-a
         <<"T2", <<"lemma", "b">> >> >> }                  \* T2,lemma-b

\* The longest .lean file the builder is run on.
MaxAttachLines == 3

AttachLeanFiles == { f \in LeanFiles : Len(f) <= MaxAttachLines }

\* _label_to_tag(label): the first tag of the mapping whose label it is.
LabelToTag(tm, label) ==
    IF \E k \in 1..Len(tm) : tm[k][2] = label
    THEN <<tm[CHOOSE k \in 1..Len(tm) :
                 tm[k][2] = label /\ \A j \in 1..(k - 1) : tm[j][2] # label][1]>>
    ELSE None

\* `if self.lean and tag and tag in self.lean.snippets`
Carries(tm, snips, label) ==
    LET tag == LabelToTag(tm, label)
    IN  tag # None /\ tag[1] \in DOMAIN snips

\* main: StacksParser(root) loads the registry, LeanParser.parse scans the
\* secondary corpus, the builder is made of the two.
ParseCorpora ==
    /\ lean_pc = "parsers"
    /\ LET tm == LoadTagMap(tags)
           scan == ParseLeanFile(lean_lines)
       IN  /\ tag_map' = tm
           /\ snippets' = scan.kept
           /\ matches' = scan.seen
           /\ lean_snippets' = { l \in AttachLabels : Carries(tm, scan.kept, l) }
    /\ lean_pc' = "add_node"
    /\ UNCHANGED <<texVars, regVars, buildVars, lean_lines, tags, stats,
                   prog, results, edges, request, include_defs, depth,
                   pc, stack, visited, order, G, dot, json, tex, interleave, err>>

\* _add_node(env) for a registered block not yet in the graph.
AddNodeOf ==
    /\ lean_pc = "add_node"
    /\ \E label \in AttachLabels \ G.nodes : G' = AddNode(G, label)
    /\ UNCHANGED <<texVars, leanVars, regVars, buildVars,
                   prog, results, edges, request, include_defs, depth, lean_snippets,
                   pc, stack, visited, order, dot, json, tex, interleave, err>>

InitAttach ==
    /\ GraphIdle
    /\ TexIdle
    /\ RegIdle
    /\ BuildIdle
    /\ lean_lines \in AttachLeanFiles
    /\ tags \in AttachTagFiles
    /\ tag_map = <<>>
    /\ snippets = <<>>
    /\ matches = <<>>
    /\ stats = None
    /\ lean_pc = "parsers"

NextAttach == ParseCorpora \/ AddNodeOf

SpecAttach == InitAttach /\ [][NextAttach]_vars

-----------------------------------------------------------------------------
(* Notions the graph claims are stated with. *)

\* The blocks reached from the blocks S by citations of the blocks in X.
RECURSIVE ReachFrom(_, _)
ReachFrom(S, X) ==
    LET T == S \cup { e[2] : e \in { x \in edges : x[1] \in S \cap X
                                                   /\ x[2] \in Known } }
    IN  IF T = S THEN S ELSE ReachFrom(T, X)

\* Every block reachable from the root by citations.
Reachable == IF request \in Known THEN ReachFrom({request}, Known) ELSE {}

\* The blocks reachable without passing through a definition.
ReachableToDefinitions ==
    ReachFrom({request}, { n \in Known : results[n].type # "definition" })

\* The blocks of S reached from the blocks T without leaving S.
RECURSIVE ReachIn(_, _)
ReachIn(T, S) ==
    LET U == T \cup { e[2] : e \in { x \in edges : x[1] \in T /\ x[2] \in S } }
    IN  IF U = T THEN T ELSE ReachIn(U, S)

\* No block of S cites its way back to itself through blocks of S.
AcyclicOn(S) ==
    \A n \in S :
        n \notin ReachIn({ e[2] : e \in { x \in edges : x[1] = n /\ x[2] \in S } }, S)

RECURSIVE SumTodo(_)
SumTodo(st) ==
    IF st = <<>> THEN 0 ELSE Cardinality(Head(st).todo) + SumTodo(Tail(st))

RECURSIVE Weight(_)
Weight(S) ==
    IF S = {} THEN 0
    ELSE LET n == CHOOSE x \in S : TRUE
         IN  2 + Cardinality(Adj(n)) + Weight(S \ {n})

\* What is left of a traversal: the unvisited blocks with their citations,
\* the open calls and the citations their loops have not taken yet.
Variant == Weight(Known \ visited) + Len(stack) + SumTodo(stack)

InTraversal == pc \in {"dfs", "visit"}

\* visit / dfs has returned to its caller.
TraversalOver ==
    /\ request \in Known
    /\ \/ prog = "dependency_graph" /\ pc \in {"write_tex", "done"}
       \/ prog = "interleaved_dep_graph"
          /\ pc \in {"to_dot", "to_json", "to_tex", "done", "error"}

\* The labels of the items of kind k in a document, in order.
RECURSIVE LabelsOf(_, _)
LabelsOf(doc, k) ==
    IF doc = <<>> THEN <<>>
    ELSE (IF Head(doc).k = k THEN <<Head(doc).n>> ELSE <<>>)
         \o LabelsOf(Tail(doc), k)

\* The blocks whose text a document holds, in order of emission.
Emitted(doc) ==
    LabelsOf(doc, "env") \o LabelsOf(doc, "minipage_tex") \o LabelsOf(doc, "tex")

\* An export has all its edges between its own nodes.
Closed(export) ==
    \A e \in export.edges : e[1] \in export.nodes /\ e[2] \in export.nodes

-----------------------------------------------------------------------------
(* Claims settled under SpecGraph. *)

\* C1: in every graph export (the DOT file of write_dot, the JSON record of
\* dependency_graph.main, the graph built by DependencyGraphBuilder.build
\* and its exports), every exported edge has both its source and its target
\* in that export's node set, also when a block cites a label that no block
\* registers.
C1_NoDanglingEdgeExported ==
    /\ dot # None => Closed(dot[1])
    /\ json # None => Closed(json[1])
    /\ Closed(G)

Chain == { <<"root", "a">>, <<"a", "b">>, <<"b", "c">> }

ChainBuilt ==
    /\ prog = "interleaved_dep_graph"
    /\ request = "root"
    /\ edges = Chain
    /\ results["root"].type # "definition"
    /\ results["a"].type = "definition"
    /\ depth = None
    /\ pc \in {"to_dot", "to_json", "to_tex", "done"}

\* C3: build with no depth limit on the chain root -> a -> b -> c with a of
\* kind definition: under the default policy the node set is exactly
\* {root, a}; with the kind-stop disabled (--no-defs) it is all four blocks.
C3_StopAtDefinitions ==
    ChainBuilt =>
        G.nodes = IF include_defs THEN {"root", "a"} ELSE {"root", "a", "b", "c"}

C3_Witness == ChainBuilt /\ include_defs /\ G.nodes = {"root", "a"}

\* C7: a root label that no block registers is a fatal error: the run
\* signals a failure and produces no graph and no document for it.
C7_UnknownRootIsFatal ==
    request \notin Known =>
        /\ tex = None
        /\ G = EmptyGraph
        /\ pc # "done"

\* The place of block n's text in a document that holds it once.
Place(doc, n) == Pos(Emitted(doc), n)

\* The run has written the composite document.
Written == tex # None /\ pc = "done"

\* C9 as stated: for an acyclic input, for every citation between two
\* emitted blocks the cited block is emitted before the citing block.
C9_DependenciesFirst ==
    Written /\ AcyclicOn(Known) =>
        \A e \in edges :
            e[1] \in Range(Emitted(tex[1])) /\ e[2] \in Range(Emitted(tex[1]))
            => Place(tex[1], e[2]) < Place(tex[1], e[1])

\* The edges of the graph a run exports: every citation between registered
\* blocks for generate_dependency_tex, the edges build added for Exporter.
ExportedEdges ==
    IF prog = "dependency_graph"
    THEN { e \in edges : e[1] \in Known /\ e[2] \in Known }
    ELSE G.edges

\* C9 amended: for an acyclic input, for every edge of the exported graph
\* between two emitted blocks the citing block is emitted before the block it
\* cites, in generate_dependency_tex and in both Exporter layouts (in the
\* appendix layout also among the listed snippets).
C9_CitingFirst ==
    Written /\ AcyclicOn(Known) =>
        /\ NoDuplicates(Emitted(tex[1]))
        /\ \A e \in ExportedEdges :
            /\ e[1] \in Range(Emitted(tex[1])) /\ e[2] \in Range(Emitted(tex[1]))
               => Place(tex[1], e[1]) < Place(tex[1], e[2])
            /\ e[1] \in Range(LabelsOf(tex[1], "lstlisting"))
               /\ e[2] \in Range(LabelsOf(tex[1], "lstlisting"))
               => Pos(LabelsOf(tex[1], "lstlisting"), e[1])
                    < Pos(LabelsOf(tex[1], "lstlisting"), e[2])

\* generate_dependency_tex has emitted the diamond root -> a -> b, root -> b.
C9_Witness ==
    /\ Written
    /\ prog = "dependency_graph"
    /\ edges = { <<"root", "a">>, <<"a", "b">>, <<"root", "b">> }
    /\ Emitted(tex[1]) = <<"root", "a", "b">>

\* With the flag set: each node's text is followed at once by its snippet,
\* as a minipage pair.
InterleavedLayout(doc) ==
    /\ \A i \in 1..Len(doc) : doc[i].k \in {"tikz", "minipage_tex", "minipage_lean"}
    /\ \A i \in 1..Len(doc) :
          doc[i].k = "minipage_tex" =>
              /\ i < Len(doc)
              /\ doc[i + 1].k = "minipage_lean"
              /\ doc[i + 1].n = doc[i].n

\* With the flag unset: all texts first, then all snippets in the same order.
AppendixLayout(doc) ==
    /\ \A i \in 1..Len(doc) : doc[i].k \in {"tikz", "tex", "lstlisting"}
    /\ \A i, j \in 1..Len(doc) :
          doc[i].k = "tex" /\ doc[j].k = "lstlisting" => i < j
    /\ \E S \in SUBSET Range(LabelsOf(doc, "tex")) :
          LabelsOf(doc, "lstlisting") = Only(LabelsOf(doc, "tex"), S)

\* C10: the composite-document export takes an interleave flag, in
\* generate_dependency_tex as well as in Exporter.to_tex: asked with the
\* flag set it writes the document in the interleaved layout, asked with the
\* flag unset in the appendix layout.  (A run that networkx ended on a cyclic
\* graph is left aside.)
C10_InterleaveFlagSelectsLayout ==
    interleave # None /\ err # "NetworkXUnfeasible" =>
        /\ tex # None
        /\ interleave[1] => InterleavedLayout(tex[1])
        /\ ~interleave[1] => AppendixLayout(tex[1])

-----------------------------------------------------------------------------
(* The blocks of a document, told from its begin and end markers alone. *)

\* The line of the end marker of the block begun at line b, or one past the
\* last line when the block is never closed.
EndOf(ls, b) ==
    LET kind == First(ls[b]).v
        ends == { j \in (b + 1)..Len(ls) : MatchEnd(ls[j], kind) }
    IN  IF ends = {} THEN Len(ls) + 1
        ELSE CHOOSE j \in ends : \A k \in ends : j <= k

\* The lines from line i on at which a block of one of the kinds begins.
RECURSIVE Starts(_, _, _)
Starts(ls, kinds, i) ==
    IF i > Len(ls) THEN {}
    ELSE IF MatchBegin(ls[i], kinds) # None
         THEN {i} \cup Starts(ls, kinds, EndOf(ls, i) + 1)
         ELSE Starts(ls, kinds, i + 1)

\* The line holds a \label declaration of a non-empty label.
DeclaresLabel(line) ==
    \E k \in 1..Len(line.toks) :
        line.toks[k].t = "label" /\ line.toks[k].v # <<>>

\* The block begun at line b is closed, and closed before any \label.
ClosedUnlabelled(ls, b) ==
    /\ EndOf(ls, b) <= Len(ls)
    /\ \A j \in (b + 1)..(EndOf(ls, b) - 1) : ~DeclaresLabel(ls[j])

\* C5: after parsing any document, every registered block has a non-empty
\* label and a kind of the program's environment list, and a block whose end
\* marker comes before any \label declaration is registered under no label
\* and is the source of no edge.
C5_RegisteredBlocksAreLabelled ==
    /\ \A l \in DOMAIN parsed.results :
          /\ l # <<>>
          /\ parsed.results[l].label # <<>>
          /\ parsed.results[l].type \in DgENVIRONMENTS
    /\ \A l \in DOMAIN parsed.envs :
          /\ l # <<>>
          /\ parsed.envs[l].label = l
          /\ parsed.envs[l].env_type \in ENVIRONMENTS
    /\ \A b \in Starts(lines, DgENVIRONMENTS, 1) :
          ClosedUnlabelled(lines, b) =>
              /\ \A l \in DOMAIN parsed.results : parsed.results[l].where # b
              /\ \A k \in 1..Len(parsed.sites) : parsed.sites[k] # b
    /\ \A b \in Starts(lines, ENVIRONMENTS, 1) :
          ClosedUnlabelled(lines, b) =>
              \A l \in DOMAIN parsed.envs : parsed.envs[l].where # b

\* A document with a block closed before any \label and a labelled block
\* has been parsed, and the labelled block is registered.
C5_Witness ==
    /\ tex_pc = "write"
    /\ \E b \in Starts(lines, DgENVIRONMENTS, 1) : ClosedUnlabelled(lines, b)
    /\ DOMAIN parsed.results # {}

\* What _extract_environment returned for each registered block is the
\* block, from its begin marker to its end marker.
ExtractFaithful ==
    \A l \in DOMAIN parsed.results :
        LET b == parsed.results[l].where
        IN  /\ emitted.environment[l].err = "none"
            /\ emitted.environment[l].lines =
                  SubSeq(lines, b, Min(EndOf(lines, b), Len(lines)))

\* What tex_block gave for each registered block is the lines between the
\* block's two markers, inside a new header and footer.
TexBlockFaithful ==
    \A l \in DOMAIN parsed.envs :
        LET b == parsed.envs[l].where
            env == parsed.envs[l]
        IN  emitted.tex_block[l] =
                << TexLine(FALSE, <<Tok("begin", env.env_type),
                                    Tok("label", l)>>) >>
                \o SubSeq(lines, b + 1, EndOf(lines, b) - 1)
                \o << TexLine(FALSE, <<Tok("end", env.env_type)>>) >>

\* C8: for every registered block, what is written for it is exactly the
\* lines of that block in the document, in order and unchanged, apart from
\* the header and footer tex_block adds; no other line is written for it.
C8_RoundTrip ==
    tex_pc = "done" => ExtractFaithful /\ TexBlockFaithful

-----------------------------------------------------------------------------
(* Snippets of the secondary corpus. *)

\* The place first offered for key k.
FirstPlace(seen, k) == seen[KeyPos(seen, k)][2]

\* C4: when several places of the secondary corpus resolve to the same label
\* (scan_mathlib) or the same tag (LeanParser), the snippet kept after the
\* whole scan is the one of the first such place; a later one never
\* replaces it.
C4_FirstSnippetRetained ==
    /\ lean_pc = "stats_done" =>
          \A l \in DOMAIN snippets : snippets[l].at = FirstPlace(matches, l)
    /\ lean_pc = "parse_done" =>
          \A t \in DOMAIN snippets : snippets[t].start_line = FirstPlace(matches, t)

\* The tag is annotated next to a declaration: some line of the file carries
\* it and the file has a declaration header.
Annotated(tag) ==
    /\ \E i \in 1..Len(lean_lines) : ScanMatch(lean_lines[i]) = <<tag>>
    /\ \E j \in 1..Len(lean_lines) : lean_lines[j].head # None

\* The blocks of the document that declare a label.
LabelledBlocks ==
    { b \in Starts(lines, DgENVIRONMENTS, 1) :
        \E j \in (b + 1)..(Min(EndOf(lines, b), Len(lines))) : DeclaresLabel(lines[j]) }

\* C6 as stated: the registry mapping tags to the labels the blocks declare
\* in their \label lines, num_nodes_with_lean_snippet is the number of
\* registered blocks whose tag is annotated in the secondary corpus, and
\* num_nodes the number of registered blocks.
C6_AttachedByDeclaredLabel ==
    lean_pc = "stats_done" =>
        /\ stats[1].num_nodes = Cardinality(LabelledBlocks)
        /\ stats[1].num_nodes_with_lean_snippet =
              Cardinality({ l \in DOMAIN parsed.results :
                  \E k \in 1..Len(tag_map) :
                      /\ tag_map[k][2] = parsed.results[l].label
                      /\ Annotated(tag_map[k][1]) })

\* C6: num_nodes is the number of registered blocks, and
\* num_nodes_with_lean_snippet the number of registered blocks to whose
\* document-qualified label (sample-lemma-a for \label{lemma-a} in
\* sample.tex) the registry maps a tag annotated in the secondary corpus.
C6_AttachedByQualifiedLabel ==
    lean_pc = "stats_done" =>
        /\ stats[1].num_nodes = Cardinality(LabelledBlocks)
        /\ stats[1].num_nodes_with_lean_snippet =
              Cardinality({ l \in DOMAIN parsed.results :
                  \E k \in 1..Len(tag_map) :
                      /\ tag_map[k][2] = <<Stem>> \o parsed.results[l].label
                      /\ Annotated(tag_map[k][1]) })

\* Two blocks are registered, the registry maps a tag to the qualified label
\* of each, and one of the two tags is annotated: 1 of 2.
C6_Witness ==
    /\ lean_pc = "stats_done"
    /\ stats[1].num_nodes = 2
    /\ stats[1].num_nodes_with_lean_snippet = 1
    /\ TagMapGet(tag_map, "T2") = << <<"sample", "lemma", "b">> >>

\* The last line the window of a match at line i must reach: the match line
\* plus two trailing lines, clamped to the end of the file.
WindowEnd(i) == Min(Len(lean_lines), i + 2)

\* C11: every snippet scan_mathlib keeps starts at the declaration header
\* found for its match, holds that header line, and runs on at least through
\* the match line plus two trailing lines (clamped to the end of the file).
C11_SnippetHoldsHeaderAndWindow ==
    lean_pc = "stats_done" =>
        \A l \in DOMAIN snippets :
            LET s == snippets[l]
            IN  /\ lean_lines[s.start].head # None
                /\ Len(s.lines) >= 1
                /\ s.lines = SubSeq(lean_lines, s.start, s.start + Len(s.lines) - 1)
                /\ s.start + Len(s.lines) - 1 >= WindowEnd(s.at)

\* The lines of the file that name the tag, by attribute or by phrase.
Naming(tag) ==
    { i \in 1..Len(lean_lines) :
        lean_lines[i].attr = <<tag>> \/ lean_lines[i].doc = <<tag>> }

\* C12: wherever in the file a doc-string holding "Stacks Tag TAG" comes
\* immediately before a declaration, LeanParser has a snippet for TAG after
\* the parse, and (the tag being named nowhere else) the snippet starts with
\* that declaration's header line.
C12_DocTagRecognisedAnywhere ==
    lean_pc = "parse_done" =>
        \A i \in 1..(Len(lean_lines) - 1) :
            (lean_lines[i].doc # None /\ lean_lines[i + 1].head # None) =>
                LET tag == lean_lines[i].doc[1]
                IN  /\ tag \in DOMAIN snippets
                    /\ Naming(tag) = {i} =>
                          /\ snippets[tag].start_line = i + 1
                          /\ snippets[tag].lines[1] = lean_lines[i + 1]

-----------------------------------------------------------------------------
(* The registry. *)

\* A valid CODE,LABEL line: not blank, not a comment, exactly two fields.
ValidTagLine(line) == ~line.blank /\ ~line.comment /\ Len(line.rest) = 1

\* The valid lines of the registry whose code, in upper case, is tag.
ValidFor(tag) ==
    { i \in 1..Len(registry.lines) :
        ValidTagLine(registry.lines[i]) /\ Upper(registry.lines[i].code) = tag }

\* C13: the loader returns one entry for every code of a valid line, keyed
\* by the code in upper case and holding the label of the last valid line
\* with that code; blank lines, comments and lines that are not exactly two
\* fields give nothing, and an absent registry gives the empty mapping.
C13_RegistryLoaded ==
    reg_pc \in {"loaded", "stacks_loaded"} =>
        /\ \A j, k \in 1..Len(loaded) : loaded[j][1] = loaded[k][1] => j = k
        /\ { loaded[k][1] : k \in 1..Len(loaded) } =
              { Upper(registry.lines[i].code) :
                  i \in { i \in 1..Len(registry.lines) :
                            ValidTagLine(registry.lines[i]) } }
        /\ \A k \in 1..Len(loaded) :
              LET last == CHOOSE i \in ValidFor(loaded[k][1]) :
                              \A j \in ValidFor(loaded[k][1]) : j <= i
              IN  loaded[k][2] = registry.lines[last].rest[1]
        /\ ~registry.exists => loaded = <<>>

\* The same of load_tag_map alone.
LoadTagMapFaithful == reg_pc = "stacks_loaded" \/ C13_RegistryLoaded

-----------------------------------------------------------------------------
(* build_graph and its inputs. *)

\* parse_file is about to be called for a stem whose file does not exist.
AtAbsentDocument ==
    build_pc = "parse_file" /\ todo # <<>> /\ Head(todo) \notin present

\* C14: build_graph never fails because an input is missing: a listed
\* document whose file is absent leaves the block map and the edge list as
\* they were, and an absent manifest gives an empty block map and edge list,
\* not an error.
C14_MissingInputsNotFatal ==
    /\ [](build_err = "none")
    /\ [](makefile = None /\ build_pc \notin {"list_text_files"} =>
              build_pc = "done" /\ parsed = EmptyAccumulators)
    /\ [][AtAbsentDocument => parsed' = parsed]_vars

\* The half about absent documents alone.
AbsentDocumentSkipped == [][AtAbsentDocument => parsed' = parsed]_vars

-----------------------------------------------------------------------------
(* Blocks that are never closed. *)

\* The blocks of the document, of the given kinds, with no end marker.
Unclosed(kinds) ==
    { b \in Starts(lines, kinds, 1) : EndOf(lines, b) > Len(lines) }

\* C15 as stated: a block whose end marker never comes is absent from the
\* block map and is the source of no edge, label or no label.
C15_UnclosedDiscarded ==
    /\ \A b \in Unclosed(DgENVIRONMENTS) :
          /\ \A l \in DOMAIN parsed.results : parsed.results[l].where # b
          /\ \A k \in 1..Len(parsed.sites) : parsed.sites[k] # b
    /\ \A b \in Unclosed(ENVIRONMENTS) :
          \A l \in DOMAIN parsed.envs : parsed.envs[l].where # b

\* The lines after line b that parse_file takes for a label declaration.
LabelLinesDg(b) ==
    { j \in (b + 1)..Len(lines) : First(lines[j]).t = "label" /\ First(lines[j]).v # <<>> }

\* The lines after line b in which LABEL_RE finds a label.
LabelLinesIdg(b) ==
    { j \in (b + 1)..Len(lines) :
        \E k \in 1..Len(lines[j].toks) :
            lines[j].toks[k].t = "label" /\ Len(lines[j].toks[k].v) >= 2 }

\* C15: a block whose end marker never comes is registered all the same
\* when a \label declaration was seen inside it, and only then: parse_file
\* has it in the block map from the label line on, with an edge for every
\* tracked citation after that line; _parse_tex_file has it in envs at the
\* end of the file, its body running to the last line.
C15_UnclosedLabelledRegistered ==
    /\ tex_pc = "write" =>
          \A b \in Unclosed(DgENVIRONMENTS) :
              /\ LabelLinesDg(b) = {} =>
                    /\ \A l \in DOMAIN parsed.results : parsed.results[l].where # b
                    /\ \A k \in 1..Len(parsed.sites) : parsed.sites[k] # b
              /\ LabelLinesDg(b) # {} =>
                    LET at == CHOOSE j \in LabelLinesDg(b) : \A k \in LabelLinesDg(b) : j <= k
                        l == <<Stem>> \o First(lines[at]).v
                    IN  /\ l \in DOMAIN parsed.results
                        /\ parsed.results[l].where = b
                        /\ \A j \in (at + 1)..Len(lines) :
                              \A r \in Range(RefsOf(lines[j].toks)) :
                                  (Len(r) >= 3 /\ r[2] \in DgENVIRONMENTS) =>
                                      \E k \in 1..Len(parsed.edges) :
                                          /\ parsed.edges[k] = <<l, r>>
                                          /\ parsed.sites[k] = b
    /\ tex_pc = "export" =>
          \A b \in Unclosed(ENVIRONMENTS) :
              /\ LabelLinesIdg(b) = {} =>
                    \A l \in DOMAIN parsed.envs : parsed.envs[l].where # b
              /\ LabelLinesIdg(b) # {} =>
                    \E l \in DOMAIN parsed.envs :
                        /\ parsed.envs[l].where = b
                        /\ parsed.envs[l].body = SubSeq(lines, b + 1, Len(lines))

\* A document whose last block is never closed, holds a label and cites a
\* block after it has been parsed by parse_file.
C15_Witness ==
    /\ tex_pc = "write"
    /\ \E b \in Unclosed(DgENVIRONMENTS) : LabelLinesDg(b) # {}
    /\ parsed.edges # <<>>

-----------------------------------------------------------------------------
(* Citations in parse_file. *)

\* A citation qualified the way labels are: kept when it begins with the
\* document stem, else prefixed with it.
QualifiedLikeLabel(ref) ==
    IF Len(ref) >= 2 /\ ref[1] = Stem THEN ref ELSE <<Stem>> \o ref

\* C16: in parse_file, for every registered block and every citation on a
\* line after its label and up to its end marker, when the citation,
\* qualified the way labels are, begins with a kind-prefix, the edge
\* (block label, qualified citation) is recorded; so \ref{lemma-a} in
\* sample.tex gives an edge to sample-lemma-a.
C16_CitationQualifiedLikeLabel ==
    tex_pc = "write" =>
        \A l \in DOMAIN parsed.results :
            LET b == parsed.results[l].where
                at == CHOOSE j \in LabelLinesDg(b) : \A k \in LabelLinesDg(b) : j <= k
            IN  \A j \in (at + 1)..Min(EndOf(lines, b), Len(lines)) :
                    \A r \in Range(RefsOf(lines[j].toks)) :
                        LET target == QualifiedLikeLabel(r)
                        IN  target[2] \in DgENVIRONMENTS =>
                                \E k \in 1..Len(parsed.edges) :
                                    parsed.edges[k] = <<l, target>>

\* The same for citations that already name the document.
QualifiedCitationRecorded ==
    tex_pc = "write" =>
        \A l \in DOMAIN parsed.results :
            LET b == parsed.results[l].where
                at == CHOOSE j \in LabelLinesDg(b) : \A k \in LabelLinesDg(b) : j <= k
            IN  \A j \in (at + 1)..Min(EndOf(lines, b), Len(lines)) :
                    \A r \in Range(RefsOf(lines[j].toks)) :
                        (Len(r) >= 3 /\ r[1] = Stem /\ r[2] \in DgENVIRONMENTS) =>
                            \E k \in 1..Len(parsed.edges) :
                                parsed.edges[k] = <<l, r>>

-----------------------------------------------------------------------------
(* Cycles at export. *)

\* The nodes of the built graph reached from the nodes T along its edges.
RECURSIVE ReachInG(_)
ReachInG(T) ==
    LET U == T \cup { e[2] : e \in { x \in G.edges : x[1] \in T } }
    IN  IF U = T THEN T ELSE ReachInG(U)

\* No node of the built graph leads back to itself.
AcyclicG ==
    \A n \in G.nodes : n \notin ReachInG({ e[2] : e \in { x \in G.edges : x[1] = n } })

\* C17: cyclic citations cause no error at export: the graph build hands to
\* the exporters is acyclic, the edge re-entering a visited block being left
\* out, and the composite document is written with every block of the
\* traversal in it.
C17_CyclesHarmlessAtExport ==
    /\ err # "NetworkXUnfeasible"
    /\ (prog = "interleaved_dep_graph" /\ pc \in {"to_dot", "to_json", "to_tex", "done"})
          => AcyclicG
    /\ (pc = "done" /\ tex # None) => Range(Emitted(tex[1])) = Range(order)

\* The same of generate_dependency_tex alone.
VisitCyclesHarmless ==
    prog = "dependency_graph" =>
        /\ err # "NetworkXUnfeasible"
        /\ (pc = "done" /\ tex # None /\ request \in Known) =>
              Range(Emitted(tex[1])) = Reachable

-----------------------------------------------------------------------------
(* The graph build gives, told from the blocks, the root and the policy. *)

\* The blocks whose citations the policy follows: all of them, or all but
\* the definitions.
Passed == IF include_defs THEN { n \in Known : results[n].type # "definition" }
          ELSE Known

\* The blocks reached from the blocks S in at most k citation steps, every
\* step leaving a block the policy follows.
RECURSIVE WithinSteps(_, _)
WithinSteps(S, k) ==
    IF k = 0 THEN S
    ELSE LET T == S \cup { e[2] : e \in { x \in edges : x[1] \in S \cap Passed
                                                        /\ x[2] \in Known } }
         IN  IF T = S THEN S ELSE WithinSteps(T, k - 1)

\* With depth limit N the blocks within N steps of the root, without limit
\* all the blocks the policy reaches.
ExpectedNodes ==
    WithinSteps({request}, IF depth = None THEN Cardinality(Known) ELSE depth[1])

\* The blocks whose citations are followed: those the policy follows that
\* are reached in fewer steps than the limit.
ExpectedExpanded ==
    Passed \cap (IF depth = None THEN ExpectedNodes
                 ELSE IF depth[1] = 0 THEN {}
                 ELSE WithinSteps({request}, depth[1] - 1))

\* C18: whatever the order in which a block's references are iterated,
\* build(root, depth) gives the same graph: its nodes are the blocks within
\* the depth limit of the root by citations that pass through no stopped
\* block, its edges the citations of the blocks that were not stopped.
C18_BuildIndependentOfOrder ==
    (prog = "interleaved_dep_graph" /\ pc = "to_dot") =>
        /\ G.nodes = ExpectedNodes
        /\ G.edges = { e \in edges : e[1] \in ExpectedExpanded /\ e[2] \in Known }

\* The same without a depth limit.
UnlimitedBuildIndependentOfOrder == depth = None => C18_BuildIndependentOfOrder

-----------------------------------------------------------------------------
(* The snippet a node carries. *)

\* C19: a node added to the graph carries a Lean snippet whenever some tag
\* the registry maps to the node's label has a snippet in
\* LeanParser.snippets, also when it is not the first such tag listed.
C19_AnyTagAttaches ==
    lean_pc = "add_node" =>
        \A l \in G.nodes :
            (\E k \in 1..Len(tag_map) :
                tag_map[k][2] = l /\ tag_map[k][1] \in DOMAIN snippets)
            => l \in G.lean

\* The same when the tag with the snippet is the first listed for the label.
FirstTagAttaches ==
    lean_pc = "add_node" =>
        \A l \in G.nodes :
            (\E k \in 1..Len(tag_map) :
                /\ tag_map[k][2] = l /\ tag_map[k][1] \in DOMAIN snippets
                /\ \A j \in 1..(k - 1) : tag_map[j][2] # l)
            => l \in G.lean

====
